---- MODULE Spec2Model ----
(***************************************************************************)
(* Model of reddit_highlights_bot.py: the 7-day candidate collector, the   *)
(* category classifier/ranker and the sticky-slot reconciliation of main.  *)
(*                                                                         *)
(* Text is a tuple of one-character strings, so that lower-casing,         *)
(* substring search and flair normalisation are computed, not assumed.     *)
(* Time is counted in days.                                                *)
(***************************************************************************)
EXTENDS Integers, Sequences, FiniteSets, TLC

VARIABLES
    pc,               \* position of the current run / of the function under check
    posts,            \* feed: id -> attributes of the submission
    new,              \* feed listing sr.new, in the order returned (ids as records)
    top,              \* feed listing sr.top(week), in the order returned
    scan_limit,       \* SCAN_LIMIT
    forbidden_after,  \* items the feed yields before Forbidden is raised; -1: never
    candidates,       \* result of fetch_candidates_7days_hybrid
    denied,           \* the collector caught prawcore Forbidden
    CATEGORIES,       \* category table, in dict (declaration) order
    MIN_SCORE,        \* score threshold
    sections,         \* group_by_categories: key -> ranked, trimmed list
    dropped_score,    \* group_by_categories: key -> dropped below MIN_SCORE
    dropped_nomatch,  \* group_by_categories: candidates matching no category
    env,              \* .env switches of the current run
    STICKY_POSITION,  \* .env STICKY_POSITION, the same for every run
    slot,             \* target subreddit: sticky number -> optional submission id
    log,              \* calls the current run made on the target subreddit
    created,          \* optional id of the submission this run created
    prev,             \* optional occupant returned by sr.sticky
    outcome,          \* the way main ended: "" while it runs
    run,              \* runs started so far
    stops             \* runs that ended without candidates: the collector's
                      \* result, its 403 log line and the exit main took

collectVars == <<posts, new, top, scan_limit, forbidden_after>>

groupVars == <<CATEGORIES, MIN_SCORE>>

groupOut == <<sections, dropped_score, dropped_nomatch>>

runVars == <<env, STICKY_POSITION, slot, log, created, prev, outcome, run, stops>>

vars == <<pc, collectVars, candidates, denied, groupVars, groupOut, runVars>>

(***************************************************************************)
(* Bounds                                                                  *)
(***************************************************************************)
MaxListing == 2

MaxCands == 3

MaxCap == 2

MaxRuns == 2

(***************************************************************************)
(* Generic helpers                                                         *)
(***************************************************************************)
\* An optional value is a tuple: <<>> for None, <<v>> for the value v.  A text
\* that may be None is the text itself, None being <<>>: the code reads both
\* through "x or ''".
None == <<>>

Some(v) == <<v>>

Max(a, b) == IF a >= b THEN a ELSE b

Min(a, b) == IF a <= b THEN a ELSE b

Take(s, n) == SubSeq(s, 1, Min(n, Len(s)))

SeqsUpTo(S, n) == UNION {[1..k -> S] : k \in 0..n}

(***************************************************************************)
(* Collector                                                               *)
(***************************************************************************)
NOW == 10

WINDOW_DAYS == 7

SinceUtc == NOW - WINDOW_DAYS

\* ScanListing with the window test "created > since" in place of ">=".
RECURSIVE ScanListing_ExclusiveBoundary(_, _, _)
ScanListing_ExclusiveBoundary(listing, i, st) ==
    IF st.raised THEN st
    ELSE IF st.left = 0 THEN [st EXCEPT !.raised = TRUE]
    ELSE IF i > Len(listing) THEN st
    ELSE LET s == listing[i]
             st1 == [st EXCEPT !.left = IF st.left > 0 THEN st.left - 1 ELSE st.left]
         IN  IF s.over_18 THEN ScanListing_ExclusiveBoundary(listing, i + 1, st1)
             ELSE IF s.id \in st1.seen THEN ScanListing_ExclusiveBoundary(listing, i + 1, st1)
             ELSE IF s.created_utc > SinceUtc
                  THEN ScanListing_ExclusiveBoundary(listing, i + 1,
                           [st1 EXCEPT !.picked = Append(st1.picked, s),
                                       !.seen = st1.seen \cup {s.id}])
                  ELSE ScanListing_ExclusiveBoundary(listing, i + 1, st1)

\* One pass of "for s in listing" starting at index i.  st.left is the number
\* of items the feed still yields before it answers 403 (-1: it never does).
RECURSIVE ScanListing(_, _, _)
ScanListing(listing, i, st) ==
    IF st.raised THEN st
    ELSE IF st.left = 0 THEN [st EXCEPT !.raised = TRUE]
    ELSE IF i > Len(listing) THEN st
    ELSE LET s == listing[i]
             st1 == [st EXCEPT !.left = IF st.left > 0 THEN st.left - 1 ELSE st.left]
         IN  IF s.over_18 THEN ScanListing(listing, i + 1, st1)
             ELSE IF s.id \in st1.seen THEN ScanListing(listing, i + 1, st1)
             ELSE IF s.created_utc >= SinceUtc
                  THEN ScanListing(listing, i + 1,
                           [st1 EXCEPT !.picked = Append(st1.picked, s),
                                       !.seen = st1.seen \cup {s.id}])
                  ELSE ScanListing(listing, i + 1, st1)

fetch_candidates_7days_hybrid(feed_new, feed_top, limit, forbid) ==
    LET st0 == [picked |-> <<>>, seen |-> {}, left |-> forbid, raised |-> FALSE]
        st1 == ScanListing(Take(feed_new, limit), 1, st0)
        st2 == ScanListing(Take(feed_top, Max(1, limit \div 2)), 1, st1)
    IN  IF st2.raised
        THEN [result |-> <<>>, forbidden |-> TRUE]
        ELSE [result |-> st2.picked, forbidden |-> FALSE]

Fun == <<"F", "u", "n">>

(***************************************************************************)
(* Text: characters, lower(), substring, norm_flair                        *)
(***************************************************************************)
UPPER == <<"A", "B", "C", "D", "E", "F", "G", "H", "I", "J", "K", "L", "M",
           "N", "O", "P", "Q", "R", "S", "T", "U", "V", "W", "X", "Y", "Z">>

LOWER == <<"a", "b", "c", "d", "e", "f", "g", "h", "i", "j", "k", "l", "m",
           "n", "o", "p", "q", "r", "s", "t", "u", "v", "w", "x", "y", "z">>

DIGITS == {"0", "1", "2", "3", "4", "5", "6", "7", "8", "9"}

\* Characters of Unicode category S (symbols, emoji); the bracketed names
\* stand for the emoji of the flair texts.
SYMBOLS == {"[memo]", "[fire]", "[speech]", "[sparkles]", "+", "$", "^"}

\* Characters with a compatibility decomposition (NFKD).
E_ACUTE == "[e-acute]"

COMBINING_ACUTE == "[combining-acute]"

ToLower == [c \in {UPPER[i] : i \in 1..Len(UPPER)} |->
               LOWER[CHOOSE i \in 1..Len(UPPER) : UPPER[i] = c]]

LowerChar(c) == IF c \in DOMAIN ToLower THEN ToLower[c] ELSE c

\* str.lower()
Lower(s) == [i \in 1..Len(s) |-> LowerChar(s[i])]

\* needle in hay
Contains(hay, needle) ==
    \E i \in 0..(Len(hay) - Len(needle)) :
        \A k \in 1..Len(needle) : hay[i + k] = needle[k]

RECURSIVE LStrip(_)
LStrip(s) == IF s # <<>> /\ Head(s) = " " THEN LStrip(Tail(s)) ELSE s

RECURSIVE RStrip(_)
RStrip(s) ==
    IF s # <<>> /\ s[Len(s)] = " " THEN RStrip(SubSeq(s, 1, Len(s) - 1)) ELSE s

\* str.strip()
Strip(s) == RStrip(LStrip(s))

\* unicodedata.normalize("NFKD", s)
RECURSIVE Nfkd(_)
Nfkd(s) ==
    IF s = <<>> THEN <<>>
    ELSE (IF Head(s) = E_ACUTE THEN <<"e", COMBINING_ACUTE>> ELSE <<Head(s)>>)
         \o Nfkd(Tail(s))

ALNUM == {LOWER[i] : i \in 1..Len(LOWER)} \cup DIGITS

IsAlnumLower(c) == c \in ALNUM

\* re.sub(r"[^a-z0-9]+", " ", s): every maximal run of other characters
\* becomes one space.
RECURSIVE SubNonAlnum(_, _)
SubNonAlnum(s, inRun) ==
    IF s = <<>> THEN <<>>
    ELSE IF IsAlnumLower(Head(s)) THEN <<Head(s)>> \o SubNonAlnum(Tail(s), FALSE)
    ELSE IF inRun THEN SubNonAlnum(Tail(s), TRUE)
    ELSE <<" ">> \o SubNonAlnum(Tail(s), TRUE)

\* re.sub(r"\s+", " ", s)
RECURSIVE SubSpaces(_, _)
SubSpaces(s, inRun) ==
    IF s = <<>> THEN <<>>
    ELSE IF Head(s) # " " THEN <<Head(s)>> \o SubSpaces(Tail(s), FALSE)
    ELSE IF inRun THEN SubSpaces(Tail(s), TRUE)
    ELSE <<" ">> \o SubSpaces(Tail(s), TRUE)

norm_flair(s) ==
    LET s1 == Nfkd(s)
        s2 == SelectSeq(s1, LAMBDA ch : ch \notin SYMBOLS)
        s3 == Lower(s2)
        s4 == SubNonAlnum(s3, FALSE)
    IN  Strip(SubSpaces(s4, FALSE))

(***************************************************************************)
(* Classifier and ranker                                                   *)
(***************************************************************************)
Keys(cats) == {cats[i].key : i \in 1..Len(cats)}

Cfg(cats, key) == cats[CHOOSE i \in 1..Len(cats) : cats[i].key = key]

\* "ft_norm in flairs_norm"
FlairMatches(ft_norm, cfg) ==
    \E j \in 1..Len(cfg.flairs) : norm_flair(cfg.flairs[j]) = ft_norm

\* The inner "for key, cfg in CATEGORIES.items()" from entry k on: the first
\* entry whose flairs match, 0 when none does.
RECURSIVE FirstMatch(_, _, _)
FirstMatch(cats, ft_norm, k) ==
    IF k > Len(cats) THEN 0
    ELSE IF FlairMatches(ft_norm, cats[k]) THEN k
    ELSE FirstMatch(cats, ft_norm, k + 1)

\* ClassifyOne with "continue" in place of "break" after a drop for score: the
\* candidate goes on to the later categories.
RECURSIVE FallThroughFrom(_, _, _, _, _)
FallThroughFrom(cats, min_score, acc, s, k) ==
    LET m == FirstMatch(cats, norm_flair(Strip(s.link_flair_text)), k)
    IN  IF m = 0 THEN acc
        ELSE IF s.score < min_score
             THEN FallThroughFrom(cats, min_score,
                      [acc EXCEPT !.dropped_score[cats[m].key] = @ + 1], s, m + 1)
             ELSE [acc EXCEPT !.sections[cats[m].key] = Append(@, s)]

ClassifyOne_FallThrough(cats, min_score, acc, s) ==
    IF FirstMatch(cats, norm_flair(Strip(s.link_flair_text)), 1) = 0
    THEN [acc EXCEPT !.dropped_nomatch = @ + 1]
    ELSE FallThroughFrom(cats, min_score, acc, s, 1)

\* The body of "for s in candidates" applied to candidate s.
ClassifyOne(cats, min_score, acc, s) ==
    LET ft_raw == Strip(s.link_flair_text)
        ft_norm == norm_flair(ft_raw)
        k == FirstMatch(cats, ft_norm, 1)
    IN  IF k = 0
        THEN [acc EXCEPT !.dropped_nomatch = @ + 1]
        ELSE IF s.score < min_score
             THEN [acc EXCEPT !.dropped_score[cats[k].key] = @ + 1]
             ELSE [acc EXCEPT !.sections[cats[k].key] = Append(@, s)]

RECURSIVE ClassifyAll(_, _, _, _)
ClassifyAll(cats, min_score, acc, cands) ==
    IF cands = <<>> THEN acc
    ELSE ClassifyAll(cats, min_score, ClassifyOne(cats, min_score, acc, Head(cands)),
                     Tail(cands))

\* InsertByScore of a sort that is not stable: x goes before the entries of
\* its own score.
RECURSIVE InsertByScore_Unstable(_, _)
InsertByScore_Unstable(sorted, x) ==
    IF sorted = <<>> THEN <<x>>
    ELSE IF Head(sorted).score > x.score
         THEN <<Head(sorted)>> \o InsertByScore_Unstable(Tail(sorted), x)
         ELSE <<x>> \o sorted

\* Position of x in the list sorted so far: behind every entry of at least
\* its score (list.sort(reverse=True) is stable).
RECURSIVE InsertByScore(_, _)
InsertByScore(sorted, x) ==
    IF sorted = <<>> THEN <<x>>
    ELSE IF Head(sorted).score >= x.score
         THEN <<Head(sorted)>> \o InsertByScore(Tail(sorted), x)
         ELSE <<x>> \o sorted

\* posts.sort(key=lambda x: x.score, reverse=True)
RECURSIVE SortByScoreDesc(_, _)
SortByScoreDesc(done, rest) ==
    IF rest = <<>> THEN done
    ELSE SortByScoreDesc(InsertByScore(done, Head(rest)), Tail(rest))

\* posts[:limit], or posts when limit is None
Trim(sorted, limit) ==
    IF limit = None THEN sorted ELSE Take(sorted, limit[1])

group_by_categories(cats, min_score, cands) ==
    LET acc0 == [sections |-> [k \in Keys(cats) |-> <<>>],
                 dropped_score |-> [k \in Keys(cats) |-> 0],
                 dropped_nomatch |-> 0]
        acc == ClassifyAll(cats, min_score, acc0, cands)
    IN  [acc EXCEPT !.sections =
            [k \in Keys(cats) |->
                Trim(SortByScoreDesc(<<>>, acc.sections[k]), Cfg(cats, k).limit)]]

(***************************************************************************)
(* Category tables                                                         *)
(***************************************************************************)
W_Drama == <<"D", "r", "a", "m", "a">>

W_Review == <<"R", "e", "v", "i", "e", "w">>

W_Discussion == <<"D", "i", "s", "c", "u", "s", "s", "i", "o", "n">>

SP == <<" ">>

\* drama review, discussions and fun of CATEGORIES, in dict order
CategoryTable(drama_review_limit, discussions_limit) ==
    << [key |-> "drama review",
        flairs |-> << <<"[memo]">> \o SP \o W_Drama \o SP \o W_Review,
                      W_Drama \o SP \o W_Review >>,
        limit |-> drama_review_limit],
       [key |-> "discussions",
        flairs |-> << <<"[speech]">> \o SP \o W_Discussion,
                      W_Discussion,
                      W_Discussion \o <<"s">> >>,
        limit |-> discussions_limit],
       [key |-> "fun",
        flairs |-> << <<"[fire]">> \o SP \o Fun \o SP \o <<"[fire]">>, Fun >>,
        limit |-> Some(5)] >>

DRAMA_REVIEW_LIMIT == 5

DISCUSSIONS_LIMIT == 5

DefaultCategories == CategoryTable(Some(DRAMA_REVIEW_LIMIT), Some(DISCUSSIONS_LIMIT))

\* A table whose alias lists overlap: "Discussion" is also accepted by the
\* first category.
OverlapTable(limit1, limit2) ==
    << [key |-> "drama review",
        flairs |-> << W_Drama \o SP \o W_Review, W_Discussion >>,
        limit |-> limit1],
       [key |-> "discussions",
        flairs |-> << W_Discussion, W_Drama \o SP \o W_Review >>,
        limit |-> limit2] >>

(***************************************************************************)
(* Target subreddit and ownership                                          *)
(***************************************************************************)
USERNAME == <<"B", "o", "t">>

W_Highlights == <<"H", "i", "g", "h", "l", "i", "g", "h", "t", "s">>

\* base_title of build_markdown
base_title == <<"[sparkles]", " ", "O", "u", "r", " ">> \o W_Highlights \o <<"[sparkles]">>

\* "our highlights"
MARKER == <<"o", "u", "r", " ">> \o Lower(W_Highlights)

\* Submissions that exist on the target subreddit before the first run; the
\* k-th has id -k.  A deleted author is None.
ExistingPosts ==
    << [author |-> <<"M", "o", "d">>, title |-> <<"R", "u", "l", "e", "s">>],
       [author |-> <<"b", "O", "T">>, title |-> <<"R", "u", "l", "e", "s">>],
       [author |-> <<"M", "o", "d">>, title |-> <<"Y", "O", "U", "R", " ">> \o W_Highlights],
       [author |-> None, title |-> <<"R", "u", "l", "e", "s">>] >>

ExistingIds == {-k : k \in 1..Len(ExistingPosts)}

\* The submission with the given id: an existing one, or the digest that the
\* run of that number submitted (sr.submit(title=title, ...) as USERNAME).
Submission(id) ==
    IF id < 0 THEN ExistingPosts[-id] ELSE [author |-> USERNAME, title |-> base_title]

\* is_our_highlight that accepts any post whose author exists.
is_our_highlight_AnyAuthor(subm, author_raises) ==
    LET author_ok == IF author_raises THEN FALSE ELSE subm.author # None
        title_ok == Contains(Lower(subm.title), MARKER)
    IN  author_ok \/ title_ok

\* is_our_highlight that compares the author name without lower().
is_our_highlight_CaseSensitive(subm, author_raises) ==
    LET author_ok == IF author_raises THEN FALSE
                     ELSE subm.author # None /\ subm.author = USERNAME
        title_ok == Contains(Lower(subm.title), MARKER)
    IN  author_ok \/ title_ok

is_our_highlight(subm, author_raises) ==
    LET author_ok == IF author_raises THEN FALSE
                     ELSE subm.author # None /\ Lower(subm.author) = Lower(USERNAME)
        title_ok == Contains(Lower(subm.title), MARKER)
    IN  author_ok \/ title_ok

\* str(position).lower().strip() == "bottom"
IsBottom(position) == Strip(Lower(position)) = <<"b", "o", "t", "t", "o", "m">>

\* number of unsticky_previous_in_slot, called with "bottom" or "top"
StickyNumber(bottom) == IF bottom THEN 2 ELSE 1

\* PinNumber with top and bottom exchanged.
PinNumber_Swapped(bottom) == IF bottom THEN 1 ELSE 2

\* slot filled by submission.mod.sticky(state=True, bottom=bottom)
PinNumber(bottom) == IF bottom THEN 2 ELSE 1

Positions == { <<"b", "o", "t", "t", "o", "m">>, <<"B", "o", "t", "t", "o", "m", " ">>,
               <<"t", "o", "p">> }

Call(op, on, ok) == [op |-> op, on |-> on, ok |-> ok]

NoCfg ==
    [DRY_RUN |-> FALSE, TARGET_POST_ID |-> FALSE, HIGHLIGHTS_FLAIR |-> FALSE,
     STICKY |-> FALSE, SUGGESTED_SORT |-> FALSE]

Configs ==
    [DRY_RUN : BOOLEAN, TARGET_POST_ID : BOOLEAN, HIGHLIGHTS_FLAIR : BOOLEAN,
     STICKY : BOOLEAN, SUGGESTED_SORT : BOOLEAN]

\* Values of the per-run variables between two runs.
RunIdle ==
    /\ env = NoCfg
    /\ log = <<>>
    /\ created = None
    /\ prev = None
    /\ outcome = ""

(***************************************************************************)
(* Specification of the collector alone                                    *)
(***************************************************************************)
CollectIds == {"x", "y"}

CreatedRange == {SinceUtc - 1, SinceUtc, SinceUtc + 1}

ScanLimits == {1, 4}

CollectAttrs ==
    [over_18 : BOOLEAN, created_utc : CreatedRange, score : {1}, link_flair_text : {Fun}]

Item(p, id) ==
    [id |-> id, over_18 |-> p[id].over_18, created_utc |-> p[id].created_utc,
     score |-> p[id].score, link_flair_text |-> p[id].link_flair_text]

Listing(p, ids) == [k \in 1..Len(ids) |-> Item(p, ids[k])]

InitCollect ==
    /\ pc = "collect"
    /\ posts \in [CollectIds -> CollectAttrs]
    /\ \E a \in SeqsUpTo(CollectIds, MaxListing), b \in SeqsUpTo(CollectIds, MaxListing) :
          /\ new = Listing(posts, a)
          /\ top = Listing(posts, b)
          /\ forbidden_after \in -1..(Len(a) + Len(b))
    /\ scan_limit \in ScanLimits
    /\ candidates = <<>>
    /\ denied = FALSE
    /\ CATEGORIES = DefaultCategories
    /\ MIN_SCORE = 0
    /\ sections = [k \in Keys(DefaultCategories) |-> <<>>]
    /\ dropped_score = [k \in Keys(DefaultCategories) |-> 0]
    /\ dropped_nomatch = 0
    /\ RunIdle
    /\ STICKY_POSITION = <<"b", "o", "t", "t", "o", "m">>
    /\ slot = [n \in {1, 2} |-> None]
    /\ run = 0
    /\ stops = {}

Fetch ==
    /\ pc = "collect"
    /\ LET r == fetch_candidates_7days_hybrid(new, top, scan_limit, forbidden_after)
       IN  /\ candidates' = r.result
           /\ denied' = r.forbidden
    /\ pc' = "collected"
    /\ UNCHANGED <<collectVars, groupVars, groupOut, runVars>>

NextCollect == Fetch

SpecCollect == InitCollect /\ [][NextCollect]_vars

(***************************************************************************)
(* C8: the collector's output                                              *)
(***************************************************************************)
\* The two listings as the collector receives them, recency listing first.
Scanned == Take(new, scan_limit) \o Take(top, Max(1, scan_limit \div 2))

InWindow(s) == ~s.over_18 /\ s.created_utc >= SinceUtc

EligibleIds == {Scanned[i].id : i \in {k \in 1..Len(Scanned) : InWindow(Scanned[k])}}

FirstAt(id) ==
    CHOOSE i \in 1..Len(Scanned) :
        /\ Scanned[i].id = id
        /\ \A k \in 1..(i - 1) : Scanned[k].id # id

\* C8: when no listing is denied, the output holds exactly one entry for each
\* identifier that occurs in either listing as a non-adult item created at or
\* after now - 7 days, and nothing else, however often identifiers repeat;
\* the entries stand in the order of their first occurrence, recency listing
\* before top-of-period listing.
C8_CollectorOutput ==
    (pc = "collected" /\ ~denied) =>
        /\ {candidates[i].id : i \in 1..Len(candidates)} = EligibleIds
        /\ Len(candidates) = Cardinality(EligibleIds)
        /\ \A i \in 1..Len(candidates) : candidates[i] = Scanned[FirstAt(candidates[i].id)]
        /\ \A i, j \in 1..Len(candidates) :
              i < j => FirstAt(candidates[i].id) < FirstAt(candidates[j].id)

\* A run in which an identifier occurs in both listings and twice in one, an
\* item created exactly at the boundary is kept and an earlier one is left out.
C8_Witness ==
    /\ pc = "collected" /\ ~denied
    /\ Len(new) = 2 /\ scan_limit >= 2
    /\ new[1].id = new[2].id
    /\ \E i \in 1..Len(top) : top[i].id = new[1].id
    /\ \E i \in 1..Len(candidates) : candidates[i].created_utc = SinceUtc
    /\ \E i \in 1..Len(Scanned) :
          ~Scanned[i].over_18 /\ Scanned[i].created_utc < SinceUtc
    /\ Len(candidates) = 1

(***************************************************************************)
(* Specification of the classifier alone                                   *)
(***************************************************************************)
Caps == {Some(n) : n \in 0..MaxCap} \cup {None}

Scores == {1, 2}

MinScores == {0, 2}

GroupTables ==
    {CategoryTable(c, Some(1)) : c \in Caps} \cup {OverlapTable(c, None) : c \in Caps}

GroupLabels ==
    { <<"[memo]">> \o SP \o W_Drama \o SP \o W_Review,
      <<" ", "d", "i", "s", "c", "u", "s", "s", "i", "o", "n", "!">>,
      None }

CandIds == <<"c1", "c2", "c3", "c4", "c5", "c6">>

InitGroup ==
    /\ pc = "group"
    /\ posts = <<>> /\ new = <<>> /\ top = <<>>
    /\ scan_limit = 1 /\ forbidden_after = -1
    /\ denied = FALSE
    /\ \E n \in 0..MaxCands :
          \E fl \in [1..n -> GroupLabels], sc \in [1..n -> Scores] :
              candidates = [i \in 1..n |->
                               [id |-> CandIds[i], over_18 |-> FALSE,
                                created_utc |-> SinceUtc, score |-> sc[i],
                                link_flair_text |-> fl[i]]]
    /\ CATEGORIES \in GroupTables
    /\ MIN_SCORE \in MinScores
    /\ sections = [k \in Keys(CATEGORIES) |-> <<>>]
    /\ dropped_score = [k \in Keys(CATEGORIES) |-> 0]
    /\ dropped_nomatch = 0
    /\ RunIdle
    /\ STICKY_POSITION = <<"b", "o", "t", "t", "o", "m">>
    /\ slot = [n \in {1, 2} |-> None]
    /\ run = 0
    /\ stops = {}

Group ==
    /\ pc = "group"
    /\ LET r == group_by_categories(CATEGORIES, MIN_SCORE, candidates)
       IN  /\ sections' = r.sections
           /\ dropped_score' = r.dropped_score
           /\ dropped_nomatch' = r.dropped_nomatch
    /\ pc' = "grouped"
    /\ UNCHANGED <<collectVars, candidates, denied, groupVars, runVars>>

NextGroup == Group

SpecGroup == InitGroup /\ [][NextGroup]_vars

(***************************************************************************)
(* C9, C10: classification and ranking                                     *)
(***************************************************************************)
Range(f) == {f[i] : i \in DOMAIN f}

\* Normalized form of every label, and normalized alias set of every category.
NormOfLabel == [l \in GroupLabels |-> norm_flair(l)]

NormOfAliases ==
    [t \in GroupTables |->
        [k \in 1..Len(t) |-> {norm_flair(t[k].flairs[j]) : j \in 1..Len(t[k].flairs)}]]

\* Categories whose alias set contains the candidate's normalized label.
MatchingCats(s) ==
    {k \in 1..Len(CATEGORIES) :
        NormOfLabel[s.link_flair_text] \in NormOfAliases[CATEGORIES][k]}

FirstCat(s) ==
    LET m == MatchingCats(s)
    IN  CATEGORIES[CHOOSE k \in m : \A l \in m : k <= l].key

SectionsOf(s) == {key \in Keys(CATEGORIES) : s \in Range(sections[key])}

\* C9: every candidate is in at most one Section, and only in that of the first
\* category in declaration order whose aliases contain its normalized label; a
\* candidate below the threshold is in no Section even when a later category
\* also matches, and it counts once in the first category's drop counter.
C9_FirstMatchOnly ==
    pc = "grouped" =>
        /\ \A s \in Range(candidates) :
              /\ Cardinality(SectionsOf(s)) <= 1
              /\ \A key \in SectionsOf(s) :
                    /\ MatchingCats(s) # {}
                    /\ key = FirstCat(s)
                    /\ s.score >= MIN_SCORE
              /\ (MatchingCats(s) # {} /\ s.score < MIN_SCORE) => SectionsOf(s) = {}
        /\ \A key \in Keys(CATEGORIES) :
              dropped_score[key] =
                  Cardinality({s \in Range(candidates) :
                      MatchingCats(s) # {} /\ FirstCat(s) = key /\ s.score < MIN_SCORE})

\* A candidate below the threshold whose label two categories accept: it is
\* in neither Section and the first category counted it.
C9_Witness ==
    /\ pc = "grouped"
    /\ \E s \in Range(candidates) :
          /\ Cardinality(MatchingCats(s)) = 2
          /\ s.score < MIN_SCORE
          /\ SectionsOf(s) = {}
          /\ dropped_score[FirstCat(s)] = 1
          /\ dropped_score["discussions"] = 0
    /\ \E s \in Range(candidates) : SectionsOf(s) # {}

PosOf(s) == CHOOSE i \in 1..Len(candidates) : candidates[i] = s

\* Candidates matched to the category and passing the threshold.
Accepted(key) ==
    {s \in Range(candidates) :
        MatchingCats(s) # {} /\ FirstCat(s) = key /\ s.score >= MIN_SCORE}

Before(a, b) == a.score > b.score \/ (a.score = b.score /\ PosOf(a) < PosOf(b))

\* C10: a Section with cap N has at most N entries and holds exactly the top N
\* by score of the candidates accepted for its category, ordered by descending
\* score, ties in first-seen order; without a cap it holds all of them.
C10_TopN ==
    pc = "grouped" =>
        \A key \in Keys(CATEGORIES) :
            LET sec == sections[key]
                cap == Cfg(CATEGORIES, key).limit
                acc == Accepted(key)
            IN  /\ Range(sec) \subseteq acc
                /\ cap # None =>
                      Len(sec) <= cap[1] /\ Len(sec) = Min(cap[1], Cardinality(acc))
                /\ cap = None => Len(sec) = Cardinality(acc)
                /\ \A i, j \in 1..Len(sec) : i < j => Before(sec[i], sec[j])
                /\ \A a \in Range(sec) : \A b \in acc \ Range(sec) : Before(a, b)

\* A category whose cap cuts off an accepted candidate that ties on score
\* with a kept one.
C10_Witness ==
    /\ pc = "grouped"
    /\ \E key \in Keys(CATEGORIES) :
          /\ Cfg(CATEGORIES, key).limit # None
          /\ Len(sections[key]) = Cfg(CATEGORIES, key).limit[1]
          /\ \E a \in Range(sections[key]) :
                \E b \in Accepted(key) \ Range(sections[key]) : a.score = b.score
          /\ \E i \in 1..(Len(sections[key]) - 1) :
                sections[key][i].score = sections[key][i + 1].score

(***************************************************************************)
(* main: one run after the other                                           *)
(***************************************************************************)
RUN_SCAN_LIMIT == 4

\* Source subreddit of the runs: a is inside the window, b on its boundary,
\* c older, d adult content.
RunPosts ==
    [id \in {"a", "b", "c", "d"} |->
        [over_18 |-> id = "d",
         created_utc |-> IF id = "a" THEN SinceUtc + 1
                         ELSE IF id = "c" THEN SinceUtc - 1 ELSE SinceUtc,
         score |-> IF id = "a" THEN 2 ELSE 1,
         link_flair_text |-> IF id = "a" THEN Fun ELSE W_Discussion]]

RunListings ==
    { << <<>>, <<>> >>, << <<"c", "d">>, <<"c">> >>, << <<"a", "b">>, <<"b", "a">> >> }

Bottom == IsBottom(STICKY_POSITION)

InitRun ==
    /\ pc = "idle"
    /\ posts = <<>> /\ new = <<>> /\ top = <<>>
    /\ scan_limit = RUN_SCAN_LIMIT /\ forbidden_after = -1
    /\ candidates = <<>>
    /\ denied = FALSE
    /\ CATEGORIES = DefaultCategories
    /\ MIN_SCORE = 0
    /\ sections = [k \in Keys(DefaultCategories) |-> <<>>]
    /\ dropped_score = [k \in Keys(DefaultCategories) |-> 0]
    /\ dropped_nomatch = 0
    /\ RunIdle
    /\ STICKY_POSITION \in Positions
    /\ slot \in {f \in [{1, 2} -> {None} \cup {Some(id) : id \in ExistingIds}] :
                    f[1] = None \/ f[1] # f[2]}
    /\ run = 0
    /\ stops = {}

\* main is started: the process reads its .env.
StartRun ==
    /\ pc = "idle"
    /\ run < MaxRuns
    /\ run' = run + 1
    /\ env' \in Configs
    /\ pc' = "collect"
    /\ UNCHANGED <<collectVars, candidates, denied, groupVars, groupOut,
                   STICKY_POSITION, slot, log, created, prev, outcome, stops>>

\* Steps 1 to 3 of main and the DRY_RUN branch: collect, group, build.
Collect ==
    /\ pc = "collect"
    /\ \E l \in RunListings, f \in {-1, 0, 1} :
          /\ posts' = RunPosts
          /\ new' = Listing(RunPosts, l[1])
          /\ top' = Listing(RunPosts, l[2])
          /\ forbidden_after' = f
          /\ LET r == fetch_candidates_7days_hybrid(new', top', scan_limit, f)
                 g == group_by_categories(CATEGORIES, MIN_SCORE, r.result)
             IN  /\ candidates' = r.result
                 /\ denied' = r.forbidden
                 /\ IF r.result = <<>>
                    THEN /\ outcome' = "STOP"
                         /\ pc' = "done"
                         /\ stops' = stops \cup
                                {[denied |-> r.forbidden, printed_403 |-> r.forbidden,
                                  result |-> r.result, exit |-> "STOP"]}
                         /\ UNCHANGED groupOut
                    ELSE /\ sections' = g.sections
                         /\ dropped_score' = g.dropped_score
                         /\ dropped_nomatch' = g.dropped_nomatch
                         /\ outcome' = IF env.DRY_RUN THEN "DRY_RUN" ELSE ""
                         /\ pc' = IF env.DRY_RUN THEN "done" ELSE "publish"
                         /\ UNCHANGED stops
    /\ UNCHANGED <<scan_limit, groupVars, env, STICKY_POSITION, slot, log, created,
                   prev, run>>

\* TARGET_POST_ID is set: the digest becomes a comment, and main returns.
Reply ==
    /\ pc = "publish"
    /\ env.TARGET_POST_ID
    /\ \E ok \in BOOLEAN :
          /\ log' = Append(log, Call("reply", None, ok))
          /\ outcome' = IF ok THEN "COMMENTED" ELSE "PUBLISH_FAILED"
    /\ pc' = "done"
    /\ UNCHANGED <<collectVars, candidates, denied, groupVars, groupOut, env,
                   STICKY_POSITION, slot, created, prev, run, stops>>

\* Where main goes once the submission exists and flair is dealt with.
AfterFlair == IF env.STICKY THEN "read" ELSE "done"

\* Submit whose failure does not end main: flair and sticky follow.
Submit_Continuing ==
    /\ pc = "publish"
    /\ ~env.TARGET_POST_ID
    /\ \E ok \in BOOLEAN :
          /\ created' = IF ok THEN Some(run) ELSE None
          /\ log' = Append(log, Call("submit", created', ok))
          /\ pc' = IF env.HIGHLIGHTS_FLAIR THEN "flair" ELSE AfterFlair
          /\ outcome' = IF env.HIGHLIGHTS_FLAIR \/ env.STICKY THEN ""
                        ELSE IF ok THEN "POSTED" ELSE "PUBLISH_FAILED"
    /\ UNCHANGED <<collectVars, candidates, denied, groupVars, groupOut, env,
                   STICKY_POSITION, slot, prev, run, stops>>

\* sr.submit: on success the new submission has the number of the run as id.
Submit ==
    /\ pc = "publish"
    /\ ~env.TARGET_POST_ID
    /\ \E ok \in BOOLEAN :
          IF ok
          THEN /\ created' = Some(run)
               /\ log' = Append(log, Call("submit", Some(run), TRUE))
               /\ pc' = IF env.HIGHLIGHTS_FLAIR THEN "flair" ELSE AfterFlair
               /\ outcome' = IF env.HIGHLIGHTS_FLAIR \/ env.STICKY THEN "" ELSE "POSTED"
          ELSE /\ created' = created
               /\ log' = Append(log, Call("submit", None, FALSE))
               /\ pc' = "done"
               /\ outcome' = "PUBLISH_FAILED"
    /\ UNCHANGED <<collectVars, candidates, denied, groupVars, groupOut, env,
                   STICKY_POSITION, slot, prev, run, stops>>

\* apply_post_flair: the template is looked up, and selected when found.
ApplyFlair ==
    /\ pc = "flair"
    /\ \E found \in BOOLEAN, ok \in BOOLEAN :
          log' = IF found
                 THEN log \o <<Call("flair_templates", created, TRUE),
                               Call("flair_select", created, ok)>>
                 ELSE Append(log, Call("flair_templates", created, ok))
    /\ pc' = AfterFlair
    /\ outcome' = IF env.STICKY THEN "" ELSE "POSTED"
    /\ UNCHANGED <<collectVars, candidates, denied, groupVars, groupOut, env,
                   STICKY_POSITION, slot, created, prev, run, stops>>

\* unsticky_previous_in_slot: prev = sr.sticky(number=number).  An empty slot
\* answers with an exception or with nothing, an occupied one with the
\* occupant or with an exception.
ReadOccupant ==
    /\ pc = "read"
    /\ LET number == StickyNumber(Bottom)
       IN  \E raises \in BOOLEAN :
              IF raises
              THEN /\ log' = Append(log, Call("sticky_read", None, FALSE))
                   /\ prev' = None
                   /\ pc' = "pin"
              ELSE /\ log' = Append(log, Call("sticky_read", slot[number], TRUE))
                   /\ prev' = slot[number]
                   /\ pc' = IF slot[number] # None THEN "verify" ELSE "pin"
    /\ UNCHANGED <<collectVars, candidates, denied, groupVars, groupOut, env,
                   STICKY_POSITION, slot, created, outcome, run, stops>>

\* "if prev and is_our_highlight(prev)"; reading the author may raise.
VerifyOwnership ==
    /\ pc = "verify"
    /\ \E author_raises \in BOOLEAN :
          LET ours == is_our_highlight(Submission(prev[1]), author_raises)
          IN  /\ log' = log \o <<Call("read_author", prev, ~author_raises),
                                 Call("verify", prev, ours)>>
              /\ pc' = IF ours THEN "unpin" ELSE "pin"
    /\ UNCHANGED <<collectVars, candidates, denied, groupVars, groupOut, env,
                   STICKY_POSITION, slot, created, prev, outcome, run, stops>>

\* Displace whose failure is not caught inside unsticky_previous_in_slot: it
\* leaves the try block of maybe_sticky_submission.
Displace_Aborting ==
    /\ pc = "unpin"
    /\ \E ok \in BOOLEAN :
          /\ log' = Append(log, Call("unpin", prev, ok))
          /\ slot' = IF ok THEN [n \in {1, 2} |-> IF slot[n] = prev THEN None ELSE slot[n]]
                     ELSE slot
          /\ pc' = IF ok THEN "pin" ELSE "done"
          /\ outcome' = IF ok THEN outcome ELSE "POSTED"
    /\ UNCHANGED <<collectVars, candidates, denied, groupVars, groupOut, env,
                   STICKY_POSITION, created, prev, run, stops>>

\* prev.mod.sticky(state=False); a failure is caught inside
\* unsticky_previous_in_slot.
Displace ==
    /\ pc = "unpin"
    /\ \E ok \in BOOLEAN :
          /\ log' = Append(log, Call("unpin", prev, ok))
          /\ slot' = IF ok THEN [n \in {1, 2} |-> IF slot[n] = prev THEN None ELSE slot[n]]
                     ELSE slot
    /\ pc' = "pin"
    /\ outcome' = outcome
    /\ UNCHANGED <<collectVars, candidates, denied, groupVars, groupOut, env,
                   STICKY_POSITION, created, prev, run, stops>>

\* submission.mod.sticky(state=True, bottom=bottom); a failure leaves the
\* try block of maybe_sticky_submission.
Activate ==
    /\ pc = "pin"
    /\ \E ok \in BOOLEAN :
          /\ log' = Append(log, Call("pin", created, ok))
          /\ slot' = IF ok
                     THEN [n \in {1, 2} |->
                              IF n = PinNumber(Bottom) THEN created
                              ELSE IF slot[n] = created THEN None ELSE slot[n]]
                     ELSE slot
          /\ pc' = IF ok /\ env.SUGGESTED_SORT THEN "sort" ELSE "done"
          /\ outcome' = IF ok /\ env.SUGGESTED_SORT THEN "" ELSE "POSTED"
    /\ UNCHANGED <<collectVars, candidates, denied, groupVars, groupOut, env,
                   STICKY_POSITION, created, prev, run, stops>>

\* submission.mod.suggested_sort(suggested_sort)
SuggestedSort ==
    /\ pc = "sort"
    /\ \E ok \in BOOLEAN : log' = Append(log, Call("suggested_sort", created, ok))
    /\ pc' = "done"
    /\ outcome' = "POSTED"
    /\ UNCHANGED <<collectVars, candidates, denied, groupVars, groupOut, env,
                   STICKY_POSITION, slot, created, prev, run, stops>>

\* The process ends; nothing but the target subreddit survives it.
Exit ==
    /\ pc = "done"
    /\ pc' = "idle"
    /\ posts' = <<>> /\ new' = <<>> /\ top' = <<>>
    /\ forbidden_after' = -1
    /\ candidates' = <<>>
    /\ denied' = FALSE
    /\ sections' = [k \in Keys(CATEGORIES) |-> <<>>]
    /\ dropped_score' = [k \in Keys(CATEGORIES) |-> 0]
    /\ dropped_nomatch' = 0
    /\ env' = NoCfg
    /\ log' = <<>>
    /\ created' = None
    /\ prev' = None
    /\ outcome' = ""
    /\ UNCHANGED <<scan_limit, groupVars, STICKY_POSITION, slot, run, stops>>

Next ==
    \/ StartRun
    \/ Collect
    \/ Reply
    \/ Submit
    \/ ApplyFlair
    \/ ReadOccupant
    \/ VerifyOwnership
    \/ Displace
    \/ Activate
    \/ SuggestedSort
    \/ Exit

Spec == InitRun /\ [][Next]_vars

(***************************************************************************)
(* C1 to C7: the run and the sticky slot                                   *)
(***************************************************************************)
LogOps(op) == {i \in DOMAIN log : log[i].op = op}

\* The slot the run is configured for.
TargetSlot == IF IsBottom(STICKY_POSITION) THEN 2 ELSE 1

\* The run reaches slot reconciliation: it published a submission and STICKY is on.
Reconciling == created # None /\ env.STICKY

\* Ownership as the claims state it.
AuthorIsBot(id) ==
    /\ Submission(id).author # None
    /\ Lower(Submission(id).author) = Lower(USERNAME)

TitleHasMarker(id) == Contains(Lower(Submission(id).title), MARKER)

\* C1: unpin is only ever called on an occupant whose author is the bot
\* (case-insensitive) or whose title contains "our highlights"
\* (case-insensitive); an occupant with a foreign author and no marker gets no
\* call at all, and the new digest is pinned all the same.
C1_NeverDisplacesForeign ==
    /\ \A i \in LogOps("unpin") :
          /\ log[i].on = prev /\ prev # None
          /\ AuthorIsBot(prev[1]) \/ TitleHasMarker(prev[1])
    /\ (pc = "done" /\ Reconciling /\ prev # None
            /\ ~AuthorIsBot(prev[1]) /\ ~TitleHasMarker(prev[1])) =>
          /\ LogOps("unpin") = {}
          /\ \E i \in LogOps("pin") : log[i].on = created
          /\ \A i \in LogOps("pin") : log[i].ok => slot[TargetSlot] = created

\* A foreign post without the marker was read from the slot, no unpin was
\* called and the digest was pinned.
C1_Witness ==
    /\ pc = "done"
    /\ prev = Some(-1)
    /\ LogOps("unpin") = {}
    /\ \E i \in LogOps("pin") : log[i].ok /\ log[i].on = created
    /\ slot[TargetSlot] = created

\* The occupant was read, its author was read, and the author is the bot.
AuthorMatchRead ==
    /\ prev # None
    /\ \E i \in LogOps("read_author") : log[i].ok
    /\ AuthorIsBot(prev[1])

\* C2: when the occupant and its author are readable and the author is the
\* bot, verification succeeds and the unpin of the occupant is attempted
\* before the pin of the new digest; no read, verification or unpin follows
\* the pin.
C2_DisplaceBeforeActivate ==
    /\ AuthorMatchRead =>
          /\ \A i \in LogOps("verify") : log[i].ok
          /\ pc \in {"pin", "sort", "done"} => \E i \in LogOps("unpin") : log[i].on = prev
    /\ \A i \in LogOps("pin") :
          /\ \E j \in LogOps("sticky_read") : j < i
          /\ \A j \in DOMAIN log :
                j > i => log[j].op \notin {"sticky_read", "read_author", "verify", "unpin"}
          /\ AuthorMatchRead => \E j \in LogOps("unpin") : j < i /\ log[j].on = prev

\* The occupant is a post of the bot account under another spelling of its
\* name and a title without the marker; unpin was called, then pin.
C2_Witness ==
    /\ pc = "done"
    /\ prev = Some(-2)
    /\ \E i \in LogOps("unpin") : \E j \in LogOps("pin") : i < j
    /\ \E i \in LogOps("read_author") : log[i].ok

C4_PinAttemptedOnce ==
    /\ Cardinality(LogOps("pin")) <= 1
    /\ (Reconciling /\ pc \in {"sort", "done"}) =>
          /\ Cardinality(LogOps("pin")) = 1
          /\ \A i \in LogOps("pin") : log[i].on = created
    /\ (Reconciling /\ pc = "done") => outcome = "POSTED"

\* The unpin of an owned occupant failed and the pin was attempted.
C4_Witness ==
    /\ pc = "done"
    /\ \E i \in LogOps("unpin") : ~log[i].ok
    /\ Cardinality(LogOps("pin")) = 1
    /\ outcome = "POSTED"

\* C5 as claimed: with a suggested sort configured, pin and suggested sort are
\* each attempted whether or not the other fails, a failed sort leaves the pin
\* in place, and the run does not abort.
C5_IndependentSubsteps ==
    (pc = "done" /\ Reconciling /\ env.SUGGESTED_SORT) =>
        /\ LogOps("pin") # {}
        /\ LogOps("suggested_sort") # {}
        /\ (\E i \in LogOps("pin") : log[i].ok) => slot[TargetSlot] = created
        /\ outcome = "POSTED"

\* C6 as claimed: a denied listing gives an empty result, and what the
\* collector returns and the exit main takes for a denied run differ from
\* those of a run with zero candidates in the window.  (The collector's 403
\* log line, printed_403, is the one thing that does differ.)
C6_DenialDistinct ==
    /\ denied => candidates = <<>>
    /\ \A a, b \in stops :
          (a.denied /\ ~b.denied) => (a.result # b.result \/ a.exit # b.exit)

Downstream ==
    {"flair_templates", "flair_select", "sticky_read", "read_author", "verify",
     "unpin", "pin", "suggested_sort"}

\* C7: every flair, sticky-read, unpin, pin or suggested-sort call of a run
\* comes after a successful submit of a new post in the same run; a run
\* without candidates, a dry run, a run that comments and a run whose submit
\* fails make none of these calls.
C7_PublishFirst ==
    /\ \A i \in DOMAIN log :
          log[i].op \in Downstream =>
              \E j \in LogOps("submit") : j < i /\ log[j].ok /\ log[j].on = created
    /\ outcome \in {"STOP", "DRY_RUN", "COMMENTED", "PUBLISH_FAILED"} =>
          \A i \in DOMAIN log : log[i].op \notin Downstream

\* A run that submitted, selected the flair, unpinned, pinned and set the sort.
C7_Witness ==
    /\ pc = "done"
    /\ outcome = "POSTED"
    /\ LogOps("flair_select") # {}
    /\ LogOps("unpin") # {}
    /\ LogOps("pin") # {}
    /\ LogOps("suggested_sort") # {}

====
